---- MODULE Spec2Model ----
(***************************************************************************)
(* Model of sandovaldavid/ideas-generator-ai-api:                          *)
(*   - the rate limiter of the server entry point (rateLimiterMiddleware), *)
(*   - the AI gateway (AIService: constructor, generateIdeas, callGemini,  *)
(*     callOpenAI) and its response normalizer (parseAIResponse).          *)
(* Four specifications share the module:                                   *)
(*   Spec        the rate limiter under a small set of client addresses,   *)
(*   SpecSweep   the rate limiter under enough distinct addresses to cross *)
(*               the store-sweep threshold,                                *)
(*   SpecGateway the gateway: concurrent generateIdeas calls, each one     *)
(*               backend call and one normalization,                       *)
(*   SpecParse   the normalizer alone, over a wider set of raw texts.      *)
(***************************************************************************)
EXTENDS Integers, Sequences, FiniteSets, TLC

VARIABLES
  rateLimitStore,  \* IP -> sequence of timestamps (the keys are DOMAIN)
  clock,           \* what Date.now() returns
  admitted,        \* history: IP -> every timestamp the limiter ever admitted
  lastReq,         \* history: the request handled last and its outcome
  lastByIp,        \* history: IP -> its last rate-limited request and the one before
  served,          \* history: number of requests handled
  provider,        \* AIService.provider
  geminiClient,    \* AIService.geminiClient
  openaiClient,    \* AIService.openaiClient
  ctorArgs,        \* the arguments the constructor was called with
  calls,           \* generateIdeas calls: id -> position, response, outcome
  parseInput,      \* the raw text given to a direct parseAIResponse call
  parseOutput      \* what that call yielded

limiterVars == <<rateLimitStore, clock, admitted, lastReq, lastByIp, served>>
gatewayVars == <<provider, geminiClient, openaiClient, ctorArgs, calls>>
parseVars == <<parseInput, parseOutput>>
vars == <<rateLimitStore, clock, admitted, lastReq, lastByIp, served,
          provider, geminiClient, openaiClient, ctorArgs, calls,
          parseInput, parseOutput>>

(***************************************************************************)
(* Bounds of the model.                                                    *)
(***************************************************************************)
MaxWindows == 1     \* Spec's clock runs over this many rate-limit windows
MaxRequests == 8    \* requests handled in a behaviour of Spec
MaxExtra == 2       \* addresses of SpecSweep beyond the sweep threshold
MaxSweepTicks == 1  \* window-long clock jumps in a behaviour of SpecSweep
NumCalls == 2       \* concurrent generateIdeas calls of SpecGateway
MaxIdeas == 2       \* longest mixed ideas array among the texts of SpecParse

(***************************************************************************)
(* Rate limiter: constants and pure helpers.                               *)
(***************************************************************************)
REQUESTS_PER_MINUTE == 6
WINDOW_MS == 60 * 1000
SweepThreshold == 1000

\* JavaScript null / undefined / absent header
Null == "<null>"
\* the fallback key of getClientIp
Unknown == "unknown"
\* the url fragment the middleware looks for
GenerateIdeasPath == "/api/generate-ideas"

\* mutant of UrlIncludes: every url is taken for the limited route
UrlIncludesAlways(url, fragment) == TRUE

\* A url is a sequence of fragments; String.prototype.includes over it.
UrlIncludes(url, fragment) == \E i \in 1..Len(url) : url[i] = fragment

\* truthiness of a string-or-null value
TruthyStr(s) == s # Null /\ s # ""

\* getClientIp: the first x-forwarded-for entry (xff is the header split on
\* ",", empty when the header is absent), else x-real-ip, else request.ip,
\* else "unknown"
GetClientIp(request) ==
  LET fwd == IF request.xff = <<>> THEN Null ELSE Head(request.xff)
  IN  IF TruthyStr(fwd) THEN fwd
      ELSE IF TruthyStr(request.realIp) THEN request.realIp
      ELSE IF TruthyStr(request.ip) THEN request.ip
      ELSE Unknown

\* mutant of InWindow: a timestamp exactly one window old still counts
InWindowInclusive(now, timestamp) == now - timestamp <= WINDOW_MS

\* the filter predicate: now - timestamp < WINDOW_MS
InWindow(now, timestamp) == now - timestamp < WINDOW_MS

\* rateLimitStore[ip].filter((timestamp) => now - timestamp < WINDOW_MS)
FilterWindow(list, now) == SelectSeq(list, LAMBDA timestamp : InWindow(now, timestamp))

\* mutant of LimitExceeded: an off-by-one that lets a seventh request in
LimitExceededOffByOne(list) == Len(list) > REQUESTS_PER_MINUTE

\* the limit test: rateLimitStore[ip].length >= REQUESTS_PER_MINUTE
LimitExceeded(list) == Len(list) >= REQUESTS_PER_MINUTE

\* restriction of a store to some of its keys
Restrict(store, keys) == [k \in keys |-> store[k]]

\* the sweep: above the threshold, delete every key whose list is empty
SweepStore(store) ==
  IF Cardinality(DOMAIN store) > SweepThreshold
  THEN Restrict(store, {k \in DOMAIN store : Len(store[k]) # 0})
  ELSE store

\* if (!rateLimitStore[ip]) rateLimitStore[ip] = []
EnsureKey(store, ip) ==
  IF ip \in DOMAIN store THEN store ELSE store @@ (ip :> <<>>)

\* mutant of PrunedStore: the request is counted before the limit test
PrunedStoreCounting(store, ip, now) ==
  LET s0 == EnsureKey(store, ip)
  IN  [s0 EXCEPT ![ip] = Append(FilterWindow(@, now), now)]

\* the store after pruning the caller's list
PrunedStore(store, ip, now) ==
  LET s0 == EnsureKey(store, ip)
  IN  [s0 EXCEPT ![ip] = FilterWindow(@, now)]

\* mutant of RecordedStore: the new timestamp replaces the list
RecordedStoreOverwrite(store, ip, now) == SweepStore([store EXCEPT ![ip] = <<now>>])

\* the store after recording an admitted request: push(now), then the sweep
RecordedStore(store, ip, now) == SweepStore([store EXCEPT ![ip] = Append(@, now)])

\* the history of an address after one more rate-limited request of it
Followed(history, ip, now, outcome) ==
  LET before == IF ip \in DOMAIN history THEN history[ip]
                ELSE [now |-> 0, outcome |-> "none"]
  IN  [k \in DOMAIN history \cup {ip} |->
         IF k = ip
         THEN [now |-> now, outcome |-> outcome,
               prevNow |-> before.now, prevOutcome |-> before.outcome]
         ELSE history[k]]

(***************************************************************************)
(* Rate limiter: the handler.  It is synchronous (no await), so on the     *)
(* single-threaded event loop a call runs to completion before the next.   *)
(***************************************************************************)
RateLimiterMiddleware(request) ==
  LET ip == GetClientIp(request)
      now == clock
      pruned == PrunedStore(rateLimitStore, ip, now)
  IN  /\ served' = served + 1
      /\ clock' = clock
      /\ IF ~UrlIncludes(request.url, GenerateIdeasPath)
         THEN /\ rateLimitStore' = rateLimitStore
              /\ admitted' = admitted
              /\ lastReq' = [ip |-> ip, url |-> request.url, now |-> now, outcome |-> "skipped"]
              /\ lastByIp' = lastByIp
         ELSE IF LimitExceeded(pruned[ip])
         THEN /\ rateLimitStore' = pruned
              /\ admitted' = admitted
              /\ lastReq' = [ip |-> ip, url |-> request.url, now |-> now, outcome |-> "rejected"]
              /\ lastByIp' = Followed(lastByIp, ip, now, "rejected")
         ELSE /\ rateLimitStore' = RecordedStore(pruned, ip, now)
              /\ admitted' = [EnsureKey(admitted, ip) EXCEPT ![ip] = Append(@, now)]
              /\ lastReq' = [ip |-> ip, url |-> request.url, now |-> now, outcome |-> "admitted"]
              /\ lastByIp' = Followed(lastByIp, ip, now, "admitted")
      /\ UNCHANGED <<gatewayVars, parseVars>>

(***************************************************************************)
(* JavaScript values as JSON.parse builds them.                            *)
(***************************************************************************)
JStr(s) == [t |-> "str", s |-> s]
JNum(n) == [t |-> "num", n |-> n]
JBool(b) == [t |-> "bool", b |-> b]
JNull == [t |-> "null"]
JArr(items) == [t |-> "arr", items |-> items]
JObj(fields) == [t |-> "obj", fields |-> fields]
Undefined == [t |-> "undef"]

\* !!v
Truthy(v) ==
  CASE v.t = "str" -> v.s # ""
    [] v.t = "num" -> v.n # 0
    [] v.t = "bool" -> v.b
    [] v.t = "null" -> FALSE
    [] v.t = "undef" -> FALSE
    [] OTHER -> TRUE

\* Array.isArray(v)
IsArray(v) == v.t = "arr"

\* whether v.name throws a TypeError: it does on null and undefined
PropThrows(v) == v.t \in {"null", "undef"}

\* v.name where it does not throw: an object's own field, else undefined
\* (the names read here are no property of a string, number, boolean or array)
GetProp(v, name) ==
  IF v.t = "obj" /\ name \in DOMAIN v.fields THEN v.fields[name] ELSE Undefined

\* a || b
OrElse(a, b) == IF Truthy(a) THEN a ELSE b

(***************************************************************************)
(* Text.  A text is a sequence of tokens: JSON punctuation, string         *)
(* literals (the content between the quotes), number literals, the JSON    *)
(* literals, and words of prose (markdown fences included).  Braces inside *)
(* string literals and prose words are not modelled.                       *)
(***************************************************************************)
Punct(c) == [k |-> "punct", v |-> c]
StrTok(s) == [k |-> "str", v |-> s]
NumTok(s) == [k |-> "num", v |-> s]
LitTok(s) == [k |-> "lit", v |-> s]
Word(s) == [k |-> "word", v |-> s]

LBrace == Punct("{")
RBrace == Punct("}")
LBracket == Punct("[")
RBracket == Punct("]")
Colon == Punct(":")
Comma == Punct(",")

\* the numbers that occur in the texts
Numbers == 0..9

\* the order in which JSON.stringify writes the keys that occur in the texts
KeyOrder == <<"ideas_de_contenido", "wrong_key", "categoria", "formato_sugerido",
              "titulo_gancho", "descripcion_ejecucion">>

RECURSIVE Stringify(_)
RECURSIVE StringifyItems(_, _)
RECURSIVE StringifyFields(_, _)

\* the items of an array from index i on, separated by commas
StringifyItems(items, i) ==
  IF i > Len(items) THEN <<>>
  ELSE (IF i > 1 THEN <<Comma>> ELSE <<>>) \o Stringify(items[i]) \o StringifyItems(items, i + 1)

\* the members of an object for the keys of a sequence
StringifyFields(fields, keys) ==
  IF keys = <<>> THEN <<>>
  ELSE <<StrTok(Head(keys)), Colon>> \o Stringify(fields[Head(keys)])
       \o (IF Len(keys) > 1 THEN <<Comma>> ELSE <<>>)
       \o StringifyFields(fields, Tail(keys))

\* JSON.stringify
Stringify(v) ==
  CASE v.t = "str" -> <<StrTok(v.s)>>
    [] v.t = "num" -> <<NumTok(ToString(v.n))>>
    [] v.t = "bool" -> <<LitTok(IF v.b THEN "true" ELSE "false")>>
    [] v.t = "null" -> <<LitTok("null")>>
    [] v.t = "arr" -> <<LBracket>> \o StringifyItems(v.items, 1) \o <<RBracket>>
    [] v.t = "obj" ->
         <<LBrace>>
         \o StringifyFields(v.fields, SelectSeq(KeyOrder, LAMBDA key : key \in DOMAIN v.fields))
         \o <<RBrace>>

\* the result of a parsing step: a value and the index after it, or a failure
Parsed(value, next) == [ok |-> TRUE, val |-> value, next |-> next]
SyntaxError == [ok |-> FALSE, val |-> JNull, next |-> 0]

\* the number a number literal denotes
NumberOf(literal) == CHOOSE n \in Numbers : ToString(n) = literal

\* the value a JSON literal denotes
LiteralOf(literal) ==
  CASE literal = "true" -> JBool(TRUE)
    [] literal = "false" -> JBool(FALSE)
    [] OTHER -> JNull

TokenAt(toks, i) == IF i >= 1 /\ i <= Len(toks) THEN toks[i] ELSE Word("<end>")

RECURSIVE ParseValue(_, _)
RECURSIVE ParseElements(_, _, _)
RECURSIVE ParseMembers(_, _, _)

\* the elements of an array after "[" or ",", up to the closing "]"
ParseElements(toks, i, acc) ==
  LET e == ParseValue(toks, i)
  IN  IF ~e.ok THEN SyntaxError
      ELSE IF TokenAt(toks, e.next) = Comma
           THEN ParseElements(toks, e.next + 1, Append(acc, e.val))
      ELSE IF TokenAt(toks, e.next) = RBracket
           THEN Parsed(JArr(Append(acc, e.val)), e.next + 1)
      ELSE SyntaxError

\* the members of an object after "{" or ",", up to the closing "}";
\* a repeated key keeps its last value
ParseMembers(toks, i, acc) ==
  IF TokenAt(toks, i).k # "str" \/ TokenAt(toks, i + 1) # Colon THEN SyntaxError
  ELSE LET m == ParseValue(toks, i + 2)
           fields == (toks[i].v :> m.val) @@ acc
       IN  IF ~m.ok THEN SyntaxError
           ELSE IF TokenAt(toks, m.next) = Comma
                THEN ParseMembers(toks, m.next + 1, fields)
           ELSE IF TokenAt(toks, m.next) = RBrace
                THEN Parsed(JObj(fields), m.next + 1)
           ELSE SyntaxError

\* one JSON value starting at token i
ParseValue(toks, i) ==
  LET tk == TokenAt(toks, i)
  IN  CASE tk.k = "str" -> Parsed(JStr(tk.v), i + 1)
        [] tk.k = "num" -> Parsed(JNum(NumberOf(tk.v)), i + 1)
        [] tk.k = "lit" -> Parsed(LiteralOf(tk.v), i + 1)
        [] tk = LBracket ->
             IF TokenAt(toks, i + 1) = RBracket THEN Parsed(JArr(<<>>), i + 2)
             ELSE ParseElements(toks, i + 1, <<>>)
        [] tk = LBrace ->
             IF TokenAt(toks, i + 1) = RBrace THEN Parsed(JObj(<<>>), i + 2)
             ELSE ParseMembers(toks, i + 1, <<>>)
        [] OTHER -> SyntaxError

\* JSON.parse: one value and nothing after it
JSONParse(toks) ==
  LET r == ParseValue(toks, 1)
  IN  IF r.ok /\ r.next = Len(toks) + 1 THEN r ELSE SyntaxError

\* mutant of MatchJson: the pattern is anchored, /^\{[\s\S]*\}/
MatchJsonAnchored(text) ==
  IF Len(text) = 0 \/ text[1] # LBrace THEN <<>>
  ELSE LET closes == {i \in 2..Len(text) : text[i] = RBrace}
       IN  IF closes = {} THEN <<>>
           ELSE SubSeq(text, 1, CHOOSE i \in closes : \A j \in closes : j <= i)

\* text.match(/\{[\s\S]*\}/): from the first "{" to the last "}" after it;
\* the empty sequence stands for no match (a match is never empty)
MatchJson(text) ==
  LET opens == {i \in 1..Len(text) : text[i] = LBrace}
  IN  IF opens = {} THEN <<>>
      ELSE LET first == CHOOSE i \in opens : \A j \in opens : i <= j
               closes == {i \in (first + 1)..Len(text) : text[i] = RBrace}
           IN  IF closes = {} THEN <<>>
               ELSE SubSeq(text, first, CHOOSE i \in closes : \A j \in closes : j <= i)

(***************************************************************************)
(* The normalizer: AIService.parseAIResponse.                              *)
(***************************************************************************)
\* a thrown value: an Error instance with its message, or something else
ErrorOf(message) == [isError |-> TRUE, message |-> message]
NoError == [isError |-> FALSE, message |-> ""]

\* what a function yields: the list it returns, or the value it throws
Returned(ideas) == [ok |-> TRUE, ideas |-> ideas, error |-> NoError]
Thrown(error) == [ok |-> FALSE, ideas |-> <<>>, error |-> error]

NoJsonMessage == "La respuesta de la IA no contiene JSON válido"
InvalidJsonMessage == "El JSON recibido no es válido"
MissingIdeasMessage == "La respuesta no contiene el campo 'ideas_de_contenido' o no es un array"
NoIdeasMessage == "La IA no generó ninguna idea"
UnexpectedMessage == "Error inesperado al procesar la respuesta de la IA"
\* the TypeError of reading idea.categoria on null (the runtime's wording)
NullIdeaMessage == "null is not an object (evaluating 'idea.categoria')"

DefaultCategoria == "Sin categoría"
DefaultFormato == "Post estándar"
DefaultTitulo == "Sin título"
DefaultDescripcion == "Sin descripción"

\* idea.<name> || "<default>"
CoerceField(idea, name, default) == OrElse(GetProp(idea, name), JStr(default))

\* the record the map callback returns for one element
CoerceIdea(idea) ==
  [categoria |-> CoerceField(idea, "categoria", DefaultCategoria),
   formato_sugerido |-> CoerceField(idea, "formato_sugerido", DefaultFormato),
   titulo_gancho |-> CoerceField(idea, "titulo_gancho", DefaultTitulo),
   descripcion_ejecucion |-> CoerceField(idea, "descripcion_ejecucion", DefaultDescripcion)]

\* !parsed.ideas_de_contenido || !Array.isArray(parsed.ideas_de_contenido)
IdeasMissing(parsed) ==
  \/ ~Truthy(GetProp(parsed, "ideas_de_contenido"))
  \/ ~IsArray(GetProp(parsed, "ideas_de_contenido"))

\* mutant of IdeasEmpty: the empty array is let through
IdeasEmptyNever(ideas) == FALSE

\* parsed.ideas_de_contenido.length === 0
IdeasEmpty(ideas) == Len(ideas) = 0

\* mutant of MapIdeas: the records come out in reverse order
MapIdeasReversed(ideas) ==
  IF \E i \in 1..Len(ideas) : PropThrows(ideas[i])
  THEN Thrown(ErrorOf(NullIdeaMessage))
  ELSE Returned([i \in 1..Len(ideas) |-> CoerceIdea(ideas[Len(ideas) + 1 - i])])

\* parsed.ideas_de_contenido.map(...): the callback reads idea.categoria
\* first, which throws a TypeError on a null element
MapIdeas(ideas) ==
  IF \E i \in 1..Len(ideas) : PropThrows(ideas[i])
  THEN Thrown(ErrorOf(NullIdeaMessage))
  ELSE Returned([i \in 1..Len(ideas) |-> CoerceIdea(ideas[i])])

\* mutant of ParseBody: a text that does not parse is reported as a text
\* with no JSON in it
ParseBodyMerged(text) ==
  LET jsonMatch == MatchJson(text)
      parsed == JSONParse(jsonMatch)
      ideas == GetProp(parsed.val, "ideas_de_contenido")
  IN  IF jsonMatch = <<>> \/ ~parsed.ok THEN Thrown(ErrorOf(NoJsonMessage))
      ELSE IF IdeasMissing(parsed.val) THEN Thrown(ErrorOf(MissingIdeasMessage))
      ELSE IF IdeasEmpty(ideas.items) THEN Thrown(ErrorOf(NoIdeasMessage))
      ELSE MapIdeas(ideas.items)

\* the body of the try block
ParseBody(text) ==
  LET jsonMatch == MatchJson(text)
      parsed == JSONParse(jsonMatch)
      ideas == GetProp(parsed.val, "ideas_de_contenido")
  IN  IF jsonMatch = <<>> THEN Thrown(ErrorOf(NoJsonMessage))
      ELSE IF ~parsed.ok THEN Thrown(ErrorOf(InvalidJsonMessage))
      ELSE IF IdeasMissing(parsed.val) THEN Thrown(ErrorOf(MissingIdeasMessage))
      ELSE IF IdeasEmpty(ideas.items) THEN Thrown(ErrorOf(NoIdeasMessage))
      ELSE MapIdeas(ideas.items)

\* the catch block: an Error is thrown again as it is, anything else is
\* replaced by the "unexpected" Error
ParseAIResponse(text) ==
  LET r == ParseBody(text)
  IN  IF r.ok \/ r.error.isError THEN r ELSE Thrown(ErrorOf(UnexpectedMessage))

(***************************************************************************)
(* Spec: the rate limiter, a few clients, the clock around the window's    *)
(* edges.                                                                  *)
(***************************************************************************)
Host == "http://localhost:3000"

\* the requests clients send: a client seen directly, through a proxy chain
\* and through a proxy that sets x-real-ip and a blank x-forwarded-for; a
\* client with no address at all; requests to other routes
Requests ==
  { [url |-> <<Host, GenerateIdeasPath>>, xff |-> <<>>, realIp |-> Null, ip |-> "10.0.0.1"],
    [url |-> <<Host, GenerateIdeasPath>>, xff |-> <<"10.0.0.1", "10.9.9.9">>, realIp |-> Null, ip |-> "10.9.9.9"],
    [url |-> <<Host, GenerateIdeasPath, "?lang=es">>, xff |-> <<"">>, realIp |-> "10.0.0.1", ip |-> Null],
    [url |-> <<Host, GenerateIdeasPath>>, xff |-> <<>>, realIp |-> "", ip |-> Null],
    [url |-> <<Host, "/api/status">>, xff |-> <<>>, realIp |-> Null, ip |-> "10.0.0.1"],
    [url |-> <<Host, "/">>, xff |-> <<>>, realIp |-> Null, ip |-> "10.0.0.2"] }

\* the instants Date.now() takes: each window boundary and the ms before it
Instants == {t \in {k * WINDOW_MS - d : k \in 0..MaxWindows, d \in {0, 1}} : t >= 0}

NoRequest == [ip |-> Null, url |-> <<>>, now |-> 0, outcome |-> "none"]

\* the server has started: the store is empty; the gateway and the
\* normalizer play no part in this specification
Init ==
  /\ rateLimitStore = <<>>
  /\ clock = 0
  /\ admitted = <<>>
  /\ lastReq = NoRequest
  /\ lastByIp = <<>>
  /\ served = 0
  /\ provider = Null
  /\ geminiClient = Null
  /\ openaiClient = Null
  /\ ctorArgs = <<>>
  /\ calls = <<>>
  /\ parseInput = <<>>
  /\ parseOutput = <<>>

\* a request arrives and the middleware runs on it
Request == \E request \in Requests :
  /\ served < MaxRequests
  /\ RateLimiterMiddleware(request)

\* time passes between two requests
Tick == \E t \in Instants :
  /\ t > clock
  /\ clock' = t
  /\ UNCHANGED <<rateLimitStore, admitted, lastReq, lastByIp, served>>
  /\ UNCHANGED <<gatewayVars, parseVars>>

Next == Request \/ Tick

Spec == Init /\ [][Next]_vars

(***************************************************************************)
(* SpecSweep: the rate limiter when more than SweepThreshold distinct      *)
(* addresses are tracked.  Every client sends one request; the clients     *)
(* arrive in the order of their addresses, and the clock jumps a whole     *)
(* window once the store holds SweepThreshold keys.                        *)
(***************************************************************************)
SweepAddr(n) == "10.1." \o ToString(n \div 250) \o "." \o ToString(n % 250)

SweepRequest ==
  LET n == Cardinality(DOMAIN rateLimitStore) + 1
  IN  /\ n <= SweepThreshold + MaxExtra
      /\ RateLimiterMiddleware([url |-> <<Host, GenerateIdeasPath>>, xff |-> <<>>,
                                realIp |-> Null, ip |-> SweepAddr(n)])

SweepTick ==
  /\ Cardinality(DOMAIN rateLimitStore) >= SweepThreshold
  /\ clock < MaxSweepTicks * WINDOW_MS
  /\ clock' = clock + WINDOW_MS
  /\ UNCHANGED <<rateLimitStore, admitted, lastReq, lastByIp, served>>
  /\ UNCHANGED <<gatewayVars, parseVars>>

SweepNext == SweepRequest \/ SweepTick

SpecSweep == Init /\ [][SweepNext]_vars

(***************************************************************************)
(* SpecParse: parseAIResponse called directly, as the unit tests do, on    *)
(* one raw text.                                                           *)
(***************************************************************************)
IdeaFields == {"categoria", "formato_sugerido", "titulo_gancho", "descripcion_ejecucion"}

\* the element of the unit tests
GoodIdea ==
  JObj([categoria |-> JStr("Test Category"), formato_sugerido |-> JStr("Reel"),
        titulo_gancho |-> JStr("Test Hook"), descripcion_ejecucion |-> JStr("Test Description")])

\* what a model may put in a field instead of a non-empty string
OddValues ==
  {JStr(""), JNum(5), JNum(0), JBool(TRUE), JBool(FALSE), JNull, JArr(<<>>), JObj(<<>>)}

WithField(idea, name, value) == JObj([idea.fields EXCEPT ![name] = value])
WithoutField(idea, name) == JObj(Restrict(idea.fields, DOMAIN idea.fields \ {name}))

\* the elements an ideas array may hold
Elements ==
  {GoodIdea}
  \cup {WithField(GoodIdea, name, value) : name \in IdeaFields, value \in OddValues \cup {JStr("Carrusel")}}
  \cup {WithoutField(GoodIdea, name) : name \in IdeaFields}
  \cup {JObj(<<>>), JNull, JNum(5), JStr("idea"), JBool(TRUE), JArr(<<GoodIdea>>)}

\* the elements of the longer arrays
MixElements ==
  {GoodIdea, WithoutField(GoodIdea, "titulo_gancho"), WithField(GoodIdea, "categoria", JNum(5)),
   JNull, JNum(5)}

SeqsUpTo(S, n) == UNION {[1..m -> S] : m \in 0..n}

IdeaLists == {<<e>> : e \in Elements} \cup SeqsUpTo(MixElements, MaxIdeas)

\* the JSON objects a model may answer with
Payloads ==
  {JObj([ideas_de_contenido |-> JArr(list)]) : list \in IdeaLists}
  \cup {JObj([ideas_de_contenido |-> value]) :
          value \in {JStr("ideas"), JNull, JNum(0), JBool(TRUE), JObj(<<>>)}}
  \cup {JObj([wrong_key |-> JArr(<<>>)]), JObj(<<>>)}

\* a text inside markdown fencing, with prose around it
Fenced(text) ==
  <<Word("Here"), Word("is"), Word("the"), Word("response:"), Word("<fence json>")>>
  \o text \o <<Word("<fence>"), Word("Enjoy!")>>

\* what a model may put around its JSON: prose before and after the fence,
\* without braces (the frame of Fenced) and with a brace-delimited block in
\* the prose before or after
ProseFrames ==
  { [pre |-> <<Word("Here"), Word("is"), Word("the"), Word("response:"), Word("<fence json>")>>,
     post |-> <<Word("<fence>"), Word("Enjoy!")>>],
    [pre |-> <<Word("Result"), LBrace, Word("json"), RBrace, Word("<fence json>")>>,
     post |-> <<Word("<fence>")>>],
    [pre |-> <<Word("<fence json>")>>,
     post |-> <<Word("<fence>"), Word("(schema:"), LBrace, Word("ideas"), RBrace, Word(")")>>] }

\* a text inside a frame
Embed(frame, text) == frame.pre \o text \o frame.post

\* texts that are no JSON object: prose, the malformed text of the unit
\* test, a cut object, an object followed by prose that holds a brace,
\* two objects
BrokenTexts ==
  { <<>>,
    <<Word("Lo"), Word("siento")>>,
    <<LBrace, Word("'ideas_de_contenido'"), Colon, LBracket, Word("...")>>,
    <<LBrace, StrTok("ideas_de_contenido"), Colon, LBracket, RBrace>>,
    <<RBrace, Word("y"), LBrace>>,
    Stringify(JObj([ideas_de_contenido |-> JArr(<<GoodIdea>>)])) \o <<Word("(see"), LBrace, Word("x"), RBrace, Word(")")>>,
    Stringify(JObj([ideas_de_contenido |-> JArr(<<GoodIdea>>)])) \o Stringify(JObj([ideas_de_contenido |-> JArr(<<>>)])) }

Texts ==
  {Stringify(payload) : payload \in Payloads}
  \cup {Fenced(Stringify(payload)) : payload \in Payloads}
  \cup {Embed(frame, Stringify(payload)) : frame \in ProseFrames, payload \in Payloads}
  \cup BrokenTexts

ParseInit ==
  /\ parseInput \in Texts
  /\ parseOutput = <<>>
  /\ rateLimitStore = <<>>
  /\ clock = 0
  /\ admitted = <<>>
  /\ lastReq = NoRequest
  /\ lastByIp = <<>>
  /\ served = 0
  /\ provider = Null
  /\ geminiClient = Null
  /\ openaiClient = Null
  /\ ctorArgs = <<>>
  /\ calls = <<>>

\* service.parseAIResponse(text)
CallParse ==
  /\ parseOutput = <<>>
  /\ parseOutput' = <<ParseAIResponse(parseInput)>>
  /\ UNCHANGED <<parseInput, limiterVars, gatewayVars>>

ParseNext == CallParse

SpecParse == ParseInit /\ [][ParseNext]_vars

\* the value JSON.parse builds from the object a raw text holds
PayloadOf(text) == JSONParse(MatchJson(text)).val

\* whether a raw text holds a JSON object with a non-empty ideas array
HasIdeas(text) ==
  /\ MatchJson(text) # <<>>
  /\ JSONParse(MatchJson(text)).ok
  /\ IsArray(GetProp(PayloadOf(text), "ideas_de_contenido"))
  /\ Len(GetProp(PayloadOf(text), "ideas_de_contenido").items) > 0

PopulatedString(v) == v.t = "str" /\ v.s # ""

\* C2: on success every field of every returned record is a non-empty
\* string (a missing, empty, null or non-string field got its default).
C2_FieldsArePopulatedStrings ==
  (parseOutput # <<>> /\ parseOutput[1].ok) =>
     \A i \in 1..Len(parseOutput[1].ideas) : \A name \in IdeaFields :
        PopulatedString(parseOutput[1].ideas[i][name])

\* C8: for a payload whose ideas field is a non-empty array, whatever its
\* elements, parseAIResponse succeeds with one record per element.
C8_CoercionNeverRaises ==
  (parseOutput # <<>> /\ HasIdeas(parseInput)) =>
     /\ parseOutput[1].ok
     /\ Len(parseOutput[1].ideas) = Len(GetProp(PayloadOf(parseInput), "ideas_de_contenido").items)

\* whether a JSON object has an ideas array with elements
Populated(payload) ==
  /\ IsArray(GetProp(payload, "ideas_de_contenido"))
  /\ Len(GetProp(payload, "ideas_de_contenido").items) > 0

\* whether a frame holds a brace
HasBrace(frame) ==
  \E i \in 1..Len(frame.pre \o frame.post) : (frame.pre \o frame.post)[i] \in {LBrace, RBrace}

\* C13 as stated: the text of a JSON object with a populated ideas array,
\* put inside markdown fencing with any prose around it, gives the result
\* the bare text gives.
C13_FencedEqualsBare ==
  parseOutput # <<>> =>
     \A payload \in Payloads : \A frame \in ProseFrames :
        (Populated(payload) /\ parseInput = Embed(frame, Stringify(payload))) =>
           parseOutput[1] = ParseAIResponse(Stringify(payload))

\* C13 amended: the text of a JSON object with a populated ideas array, put
\* inside markdown fencing with prose around it that holds no "{" and no
\* "}", gives the result the bare text gives.
C13_FencedEqualsBareWithoutBraces ==
  parseOutput # <<>> =>
     \A payload \in Payloads : \A frame \in ProseFrames :
        (Populated(payload) /\ ~HasBrace(frame)
           /\ parseInput = Embed(frame, Stringify(payload))) =>
           parseOutput[1] = ParseAIResponse(Stringify(payload))

\* C13's case: the two-record payload of the unit test's shape was parsed
\* from inside the fence and came out as its two records
C13_Witness ==
  /\ parseInput = Fenced(Stringify(JObj([ideas_de_contenido |->
                      JArr(<<GoodIdea, WithoutField(GoodIdea, "titulo_gancho")>>)])))
  /\ parseOutput # <<>>
  /\ parseOutput[1].ok
  /\ Len(parseOutput[1].ideas) = 2

\* C14: parseAIResponse fails, returning no list, with "no JSON" when the
\* text holds no "{" followed by a "}"; else with "invalid JSON" when the
\* text from the first "{" to the last "}" does not parse; else with the
\* error naming 'ideas_de_contenido' when that field of the parsed object is
\* absent or no array; else with "no ideas" when the array is empty.  The
\* four messages differ.
C14_FailurePointsInOrder ==
  parseOutput # <<>> =>
     LET out == parseOutput[1]
         match == MatchJson(parseInput)
         parsed == JSONParse(match)
         field == GetProp(parsed.val, "ideas_de_contenido")
     IN  /\ match = <<>> =>
               out = Thrown(ErrorOf("La respuesta de la IA no contiene JSON válido"))
         /\ (match # <<>> /\ ~parsed.ok) =>
               out = Thrown(ErrorOf("El JSON recibido no es válido"))
         /\ (match # <<>> /\ parsed.ok /\ ~IsArray(field)) =>
               out = Thrown(ErrorOf(
                 "La respuesta no contiene el campo 'ideas_de_contenido' o no es un array"))
         /\ (match # <<>> /\ parsed.ok /\ IsArray(field) /\ Len(field.items) = 0) =>
               out = Thrown(ErrorOf("La IA no generó ninguna idea"))
         /\ ~out.ok => out.ideas = <<>>

\* C14's case: the cut object of the unit test's kind has a "{" and a "}"
\* and no ideas array; it was refused at the second check
C14_Witness ==
  /\ parseInput = <<LBrace, StrTok("ideas_de_contenido"), Colon, LBracket, RBrace>>
  /\ parseOutput # <<>>
  /\ ~parseOutput[1].ok

\* C15: on success the list has one record per element of the upstream
\* array, at the element's position, with the four fields; a field that is
\* a non-empty string upstream is that string in the record.
C15_OneRecordPerElement ==
  (parseOutput # <<>> /\ parseOutput[1].ok) =>
     \A payload \in Payloads :
        parseInput \in {Stringify(payload), Fenced(Stringify(payload))} =>
           LET items == GetProp(payload, "ideas_de_contenido").items
               ideas == parseOutput[1].ideas
           IN  /\ Len(ideas) = Len(items)
               /\ \A i \in 1..Len(items) :
                     /\ DOMAIN ideas[i] = IdeaFields
                     /\ \A name \in IdeaFields :
                           PopulatedString(GetProp(items[i], name)) =>
                              ideas[i][name] = GetProp(items[i], name)

\* C15's case: an array whose first element lacks a field and whose second
\* is complete came out as two records
C15_Witness ==
  /\ parseInput = Stringify(JObj([ideas_de_contenido |->
                      JArr(<<WithoutField(GoodIdea, "titulo_gancho"), GoodIdea>>)]))
  /\ parseOutput # <<>>
  /\ parseOutput[1].ok
  /\ Len(parseOutput[1].ideas) = 2

(***************************************************************************)
(* The gateway: AIService.                                                 *)
(***************************************************************************)
GeminiModelName == "gemini-2.0-flash-exp"
OpenAIModelName == "gpt-4o-mini"

GeminiNotInitialized == "Cliente de Gemini no inicializado"
OpenAINotInitialized == "Cliente de OpenAI no inicializado"
GeminiNoResponse == "No se recibió respuesta del modelo Gemini"
OpenAINoResponse == "No se recibió respuesta del modelo OpenAI"
GeminiErrorPrefix == "Gemini API Error: "
OpenAIErrorPrefix == "OpenAI API Error: "
UnknownError == "Unknown error"
UnsupportedPrefix == "Proveedor de IA no soportado: "

\* new GoogleGenAI({ apiKey }) and new OpenAI({ apiKey }): the client handles
NewGoogleGenAI(apiKey) == "GoogleGenAI(" \o apiKey \o ")"
NewOpenAI(apiKey) == "OpenAI(" \o apiKey \o ")"

\* the constructor's assignments; it declares the one parameter config, so
\* client handles passed after it are not read
ConstructedProvider(args) == args.config.provider
ConstructedGemini(args) ==
  IF args.config.provider = "gemini" THEN NewGoogleGenAI(args.config.apiKey) ELSE Null
ConstructedOpenAI(args) ==
  IF args.config.provider = "gemini" THEN Null
  ELSE IF args.config.provider = "openai" THEN NewOpenAI(args.config.apiKey)
  ELSE Null

\* buildPrompt: the template with the business type in its two places
BuildPrompt(businessType) ==
  <<"# [ROL] ... # [TAREA] Genera EXACTAMENTE 6 ideas de contenido para un negocio de ",
    businessType,
    ". ... # [REGLAS DE SALIDA] ... # [ENTRADA DEL USUARIO] ",
    businessType>>

\* a text payload of a response envelope: a string, or null / undefined
TextOf(toks) == [present |-> TRUE, toks |-> toks]
AbsentText == [present |-> FALSE, toks |-> <<>>]

\* mutant of FalsyText: only an absent payload is refused
FalsyTextAbsentOnly(text) == ~text.present

\* !text
FalsyText(text) == ~text.present \/ text.toks = <<>>

\* how a backend call settles: it resolves with an envelope (Gemini: a text
\* field; OpenAI: a list of choices) or rejects with a thrown value
GeminiResolves(text) ==
  [kind |-> "resolve", error |-> NoError, text |-> text, choices |-> <<>>]
OpenAIResolves(choices) ==
  [kind |-> "resolve", error |-> NoError, text |-> AbsentText, choices |-> choices]
Rejects(error) ==
  [kind |-> "reject", error |-> error, text |-> AbsentText, choices |-> <<>>]

Choice(content) == [hasMessage |-> TRUE, content |-> content]
ChoiceWithoutMessage == [hasMessage |-> FALSE, content |-> AbsentText]

\* result.text
GeminiText(response) == response.text

\* response.choices[0]?.message?.content
OpenAIText(response) ==
  IF Len(response.choices) = 0 THEN AbsentText
  ELSE IF ~response.choices[1].hasMessage THEN AbsentText
  ELSE response.choices[1].content

\* the text a call path extracts from the envelope
ExtractText(path, response) ==
  IF path = "gemini" THEN GeminiText(response) ELSE OpenAIText(response)

\* the try block after the await: what it yields and how many times it
\* called parseAIResponse
TryAfterAwait(response, text, noResponse) ==
  IF response.kind = "reject"
  THEN [result |-> Thrown(response.error), parserCalls |-> 0]
  ELSE IF FalsyText(text)
  THEN [result |-> Thrown(ErrorOf(noResponse)), parserCalls |-> 0]
  ELSE [result |-> ParseAIResponse(text.toks), parserCalls |-> 1]

\* mutant of CatchAndWrap: the message of the caught error is dropped
CatchAndWrapGeneric(prefix, result) ==
  IF result.ok THEN result ELSE Thrown(ErrorOf(prefix \o UnknownError))

\* the catch block: whatever the try block threw becomes
\* new Error(`<Provider> API Error: ${errorMessage}`)
CatchAndWrap(prefix, result) ==
  IF result.ok THEN result
  ELSE Thrown(ErrorOf(prefix \o
         (IF result.error.isError THEN result.error.message ELSE UnknownError)))

\* callGemini from the await on
CallGeminiSettled(response) ==
  LET try == TryAfterAwait(response, GeminiText(response), GeminiNoResponse)
  IN  [result |-> CatchAndWrap(GeminiErrorPrefix, try.result), parserCalls |-> try.parserCalls]

\* callOpenAI from the await on
CallOpenAISettled(response) ==
  LET try == TryAfterAwait(response, OpenAIText(response), OpenAINoResponse)
  IN  [result |-> CatchAndWrap(OpenAIErrorPrefix, try.result), parserCalls |-> try.parserCalls]

\* a generateIdeas call that has not been made
IdleCall ==
  [pc |-> "idle", businessType |-> "", path |-> "none", client |-> Null, sent |-> <<>>,
   response |-> <<>>, parserCalls |-> 0, result |-> Returned(<<>>)]

\* a call path up to its await: without a client it throws, else it sends
\* one request to the client and waits
CallStart(businessType, path, client, notInitialized, model) ==
  IF client = Null
  THEN [IdleCall EXCEPT !.pc = "done", !.businessType = businessType, !.path = path,
                        !.result = Thrown(ErrorOf(notInitialized))]
  ELSE [IdleCall EXCEPT !.pc = "awaiting", !.businessType = businessType, !.path = path,
                        !.client = client,
                        !.sent = <<[model |-> model, prompt |-> BuildPrompt(businessType)]>>]

\* mutant of GenerateIdeasStart: any identifier that is not "gemini" takes
\* the OpenAI call path
GenerateIdeasStartDefaulting(businessType) ==
  IF provider = "gemini"
  THEN CallStart(businessType, "gemini", geminiClient, GeminiNotInitialized, GeminiModelName)
  ELSE CallStart(businessType, "openai", openaiClient, OpenAINotInitialized, OpenAIModelName)

\* generateIdeas up to the await of the call path it dispatches to
GenerateIdeasStart(businessType) ==
  IF provider = "gemini"
  THEN CallStart(businessType, "gemini", geminiClient, GeminiNotInitialized, GeminiModelName)
  ELSE IF provider = "openai"
  THEN CallStart(businessType, "openai", openaiClient, OpenAINotInitialized, OpenAIModelName)
  ELSE [IdleCall EXCEPT !.pc = "done", !.businessType = businessType,
                        !.result = Thrown(ErrorOf(UnsupportedPrefix \o provider))]

(***************************************************************************)
(* SpecGateway: one gateway instance, concurrent generateIdeas calls.      *)
(***************************************************************************)
CallIds == 1..NumCalls

BusinessTypes == {"bakery", "gym"}

\* provider identifiers: the two known ones and one that is neither
\* (createAIService casts AI_PROVIDER without checking it)
Providers == {"gemini", "openai", "claude"}

\* the handles and the payloads of the unit tests' mocks
MockGeminiClient == "mockGeminiClient"
MockOpenAIClient == "mockOpenAIClient"
GeminiCatIdea ==
  JObj([categoria |-> JStr("Gemini Cat"), formato_sugerido |-> JStr("Post"),
        titulo_gancho |-> JStr("Hook"), descripcion_ejecucion |-> JStr("Desc")])
OpenAICatIdea ==
  JObj([categoria |-> JStr("OpenAI Cat"), formato_sugerido |-> JStr("Story"),
        titulo_gancho |-> JStr("Hook"), descripcion_ejecucion |-> JStr("Desc")])
IdeasPayload(list) == JObj([ideas_de_contenido |-> JArr(list)])
MockGeminiResponse == GeminiResolves(TextOf(Stringify(IdeasPayload(<<GeminiCatIdea>>))))
MockOpenAIResponse ==
  OpenAIResolves(<<Choice(TextOf(Stringify(IdeasPayload(<<OpenAICatIdea>>))))>>)

\* the ways the constructor is called
CtorArgs ==
  [config : [apiKey : {"test-api-key"}, provider : Providers],
   geminiClient : {Null, MockGeminiClient},
   openaiClient : {Null, MockOpenAIClient}]

\* the raw texts a real backend answers with
GatewayTexts ==
  { Stringify(IdeasPayload(<<GeminiCatIdea>>)),
    Fenced(Stringify(IdeasPayload(<<GoodIdea, WithoutField(GoodIdea, "titulo_gancho")>>))),
    Stringify(IdeasPayload(<<WithField(GoodIdea, "categoria", JNum(5))>>)),
    Stringify(IdeasPayload(<<GoodIdea, JNull>>)),
    Stringify(IdeasPayload(<<>>)),
    Fenced(Stringify(IdeasPayload(<<>>))),
    Stringify(JObj([wrong_key |-> JArr(<<>>)])),
    <<LBrace, StrTok("ideas_de_contenido"), Colon, LBracket, RBrace>>,
    <<Word("Lo"), Word("siento")>> }

\* the values a backend call rejects with: Errors, and a value that is none
Rejections ==
  {ErrorOf("API Timeout"), ErrorOf("Rate Limit Exceeded"),
   [isError |-> FALSE, message |-> "503"]}

GeminiResponses ==
  {GeminiResolves(TextOf(text)) : text \in GatewayTexts \cup {<<>>}}
  \cup {GeminiResolves(AbsentText)}
  \cup {Rejects(error) : error \in Rejections}

OpenAIResponses ==
  {OpenAIResolves(<<Choice(TextOf(text))>>) : text \in GatewayTexts \cup {<<>>}}
  \cup {OpenAIResolves(<<>>), OpenAIResolves(<<ChoiceWithoutMessage>>),
         OpenAIResolves(<<Choice(AbsentText)>>),
         OpenAIResolves(<<Choice(AbsentText), Choice(TextOf(Stringify(IdeasPayload(<<GoodIdea>>))))>>)}
  \cup {Rejects(error) : error \in Rejections}

\* how a call to a client may settle: a mock as scripted, a client built
\* from the API key in any way its backend may answer
ResponsesOf(path, client) ==
  IF client = MockGeminiClient THEN {MockGeminiResponse}
  ELSE IF client = MockOpenAIClient THEN {MockOpenAIResponse}
  ELSE IF path = "gemini" THEN GeminiResponses
  ELSE OpenAIResponses

\* new AIService(config, geminiClient?, openaiClient?)
GatewayInit ==
  /\ ctorArgs \in CtorArgs
  /\ provider = ConstructedProvider(ctorArgs)
  /\ geminiClient = ConstructedGemini(ctorArgs)
  /\ openaiClient = ConstructedOpenAI(ctorArgs)
  /\ calls = [c \in CallIds |-> IdleCall]
  /\ rateLimitStore = <<>>
  /\ clock = 0
  /\ admitted = <<>>
  /\ lastReq = NoRequest
  /\ lastByIp = <<>>
  /\ served = 0
  /\ parseInput = <<>>
  /\ parseOutput = <<>>

\* mutant of GenerateIdeas: a call made while no Gemini client exists falls
\* back by switching the gateway to the other provider
GenerateIdeasSwitching == \E c \in CallIds, businessType \in BusinessTypes :
  /\ calls[c].pc = "idle"
  /\ calls' = [calls EXCEPT ![c] = GenerateIdeasStart(businessType)]
  /\ provider' = IF geminiClient = Null THEN "openai" ELSE provider
  /\ UNCHANGED <<geminiClient, openaiClient, ctorArgs, limiterVars, parseVars>>

\* a caller calls generateIdeas(businessType): the call runs to its await,
\* or throws before it
GenerateIdeas == \E c \in CallIds, businessType \in BusinessTypes :
  /\ calls[c].pc = "idle"
  /\ calls' = [calls EXCEPT ![c] = GenerateIdeasStart(businessType)]
  /\ UNCHANGED <<provider, geminiClient, openaiClient, ctorArgs, limiterVars, parseVars>>

\* mutant of BackendSettles: a call that fails sends its request once more
BackendSettlesRetrying == \E c \in CallIds :
  /\ calls[c].pc = "awaiting"
  /\ \E response \in ResponsesOf(calls[c].path, calls[c].client) :
       LET end == IF calls[c].path = "gemini" THEN CallGeminiSettled(response)
                  ELSE CallOpenAISettled(response)
       IN  IF ~end.result.ok /\ Len(calls[c].sent) < 2
           THEN calls' = [calls EXCEPT ![c].sent = calls[c].sent \o calls[c].sent]
           ELSE calls' = [calls EXCEPT ![c].pc = "done",
                                       ![c].response = <<response>>,
                                       ![c].parserCalls = end.parserCalls,
                                       ![c].result = end.result]
  /\ UNCHANGED <<provider, geminiClient, openaiClient, ctorArgs, limiterVars, parseVars>>

\* the backend call of a waiting call settles and the call runs to its end
BackendSettles == \E c \in CallIds :
  /\ calls[c].pc = "awaiting"
  /\ \E response \in ResponsesOf(calls[c].path, calls[c].client) :
       LET end == IF calls[c].path = "gemini" THEN CallGeminiSettled(response)
                  ELSE CallOpenAISettled(response)
       IN  calls' = [calls EXCEPT ![c].pc = "done",
                                  ![c].response = <<response>>,
                                  ![c].parserCalls = end.parserCalls,
                                  ![c].result = end.result]
  /\ UNCHANGED <<provider, geminiClient, openaiClient, ctorArgs, limiterVars, parseVars>>

\* the caller takes the outcome; it may call again
CallerReceives == \E c \in CallIds :
  /\ calls[c].pc = "done"
  /\ calls' = [calls EXCEPT ![c] = IdleCall]
  /\ UNCHANGED <<provider, geminiClient, openaiClient, ctorArgs, limiterVars, parseVars>>

GatewayNext == GenerateIdeas \/ BackendSettles \/ CallerReceives

SpecGateway == GatewayInit /\ [][GatewayNext]_vars

(***************************************************************************)
(* Claims about the gateway.                                               *)
(***************************************************************************)
\* the calls that have ended
DoneCalls == {c \in CallIds : calls[c].pc = "done"}

\* the calls whose backend call has settled
SettledCalls == {c \in DoneCalls : calls[c].response # <<>>}

\* the text the call path of a settled call took from the envelope
CallText(c) == ExtractText(calls[c].path, calls[c].response[1])

\* whether a raw text holds a JSON object whose ideas field is an empty array
HasEmptyIdeas(text) ==
  /\ MatchJson(text) # <<>>
  /\ JSONParse(MatchJson(text)).ok
  /\ IsArray(GetProp(PayloadOf(text), "ideas_de_contenido"))
  /\ Len(GetProp(PayloadOf(text), "ideas_de_contenido").items) = 0

\* C1: an error the normalizer raises on the text of a backend reaches the
\* caller of generateIdeas unchanged, on both call paths.
C1_NormalizerErrorUnchanged ==
  \A c \in SettledCalls :
     (calls[c].parserCalls > 0 /\ ~ParseAIResponse(CallText(c).toks).ok) =>
        calls[c].result = ParseAIResponse(CallText(c).toks)

\* C5: a gateway constructed with a client handle for its backend sends its
\* calls to that handle, and with the mock that answers the one-element
\* payload generateIdeas returns exactly that record.
C5_InjectedClientUsed ==
  \A c \in CallIds :
     /\ (calls[c].pc # "idle" /\ provider = "gemini" /\ ctorArgs.geminiClient # Null) =>
           /\ calls[c].client = ctorArgs.geminiClient
           /\ calls[c].pc = "done" => calls[c].result = Returned(<<CoerceIdea(GeminiCatIdea)>>)
     /\ (calls[c].pc # "idle" /\ provider = "openai" /\ ctorArgs.openaiClient # Null) =>
           /\ calls[c].client = ctorArgs.openaiClient
           /\ calls[c].pc = "done" => calls[c].result = Returned(<<CoerceIdea(OpenAICatIdea)>>)

\* C6: when the backend call rejects with an Error of message m,
\* generateIdeas fails, returning no list, with the message
\* "Gemini API Error: m" or "OpenAI API Error: m" of its provider.
C6_BackendErrorWrapped ==
  \A c \in SettledCalls :
     LET response == calls[c].response[1]
     IN  (response.kind = "reject" /\ response.error.isError) =>
            /\ ~calls[c].result.ok
            /\ calls[c].result.ideas = <<>>
            /\ calls[c].result.error.isError
            /\ calls[c].path = "gemini" =>
                  calls[c].result.error.message = "Gemini API Error: " \o response.error.message
            /\ calls[c].path = "openai" =>
                  calls[c].result.error.message = "OpenAI API Error: " \o response.error.message

\* C6's case: two calls have failed on rejected backend calls, one with
\* each of the unit tests' messages
C6_Witness ==
  /\ \E c \in SettledCalls : calls[c].response[1] = Rejects(ErrorOf("API Timeout"))
  /\ \E c \in SettledCalls : calls[c].response[1] = Rejects(ErrorOf("Rate Limit Exceeded"))

\* C7: a generateIdeas call that succeeds returns a non-empty list, and a
\* payload whose ideas array is empty ends in the "no ideas" error.
C7_SuccessIsNonEmpty ==
  \A c \in DoneCalls :
     /\ calls[c].result.ok => Len(calls[c].result.ideas) > 0
     /\ (calls[c].parserCalls > 0 /\ HasEmptyIdeas(CallText(c).toks)) =>
           /\ ~calls[c].result.ok
           /\ calls[c].result.ideas = <<>>
           /\ calls[c].result.error.message \in
                 {"Gemini API Error: La IA no generó ninguna idea",
                  "OpenAI API Error: La IA no generó ninguna idea"}

\* C7's case: one call has succeeded with several records, another has
\* failed on an empty ideas array inside markdown fencing
C7_Witness ==
  /\ \E c \in DoneCalls : calls[c].result.ok /\ Len(calls[c].result.ideas) = 2
  /\ \E c \in DoneCalls :
        /\ calls[c].parserCalls > 0
        /\ CallText(c).toks = Fenced(Stringify(IdeasPayload(<<>>)))

\* C10: when the backend call succeeds with an empty or absent text,
\* generateIdeas fails with the "no response" error of its provider and
\* parseAIResponse is not called.
C10_EmptyPayloadIsNoResponse ==
  \A c \in SettledCalls :
     LET response == calls[c].response[1]
         text == CallText(c)
     IN  (response.kind = "resolve" /\ (~text.present \/ Len(text.toks) = 0)) =>
            /\ calls[c].parserCalls = 0
            /\ ~calls[c].result.ok
            /\ calls[c].result.ideas = <<>>
            /\ calls[c].path = "gemini" =>
                  calls[c].result.error.message =
                    "Gemini API Error: No se recibió respuesta del modelo Gemini"
            /\ calls[c].path = "openai" =>
                  calls[c].result.error.message =
                    "OpenAI API Error: No se recibió respuesta del modelo OpenAI"

\* C10's case: one call got an empty string, another no text at all (for
\* OpenAI: no first choice)
C10_Witness ==
  /\ \E c \in SettledCalls :
        /\ calls[c].response[1].kind = "resolve"
        /\ CallText(c) = TextOf(<<>>)
  /\ \E c \in SettledCalls :
        /\ calls[c].response[1].kind = "resolve"
        /\ CallText(c) = AbsentText
        /\ calls[c].path = "openai" => calls[c].response[1].choices = <<>>

\* C11: a gateway whose provider is neither "gemini" nor "openai" is
\* constructed (with no client handle), and each of its generateIdeas calls
\* ends, without a request to any backend, in the error whose message is
\* "Proveedor de IA no soportado: " followed by the configured identifier.
C11_UnsupportedProviderFails ==
  (provider # "gemini" /\ provider # "openai") =>
     /\ geminiClient = Null
     /\ openaiClient = Null
     /\ \A c \in CallIds :
           /\ calls[c].pc # "awaiting"
           /\ calls[c].sent = <<>>
           /\ calls[c].response = <<>>
           /\ calls[c].pc = "done" =>
                 /\ ~calls[c].result.ok
                 /\ calls[c].result.ideas = <<>>
                 /\ calls[c].result.error.isError
                 /\ calls[c].result.error.message =
                       "Proveedor de IA no soportado: " \o ctorArgs.config.provider

\* C11's case: a gateway configured with "claude" has had two calls fail,
\* for different business types
C11_Witness ==
  /\ provider = "claude"
  /\ \A c \in CallIds : calls[c].pc = "done"
  /\ calls[1].businessType # calls[2].businessType

\* C12: a generateIdeas call sends at most one request, to the client and
\* the model of the configured provider; a call that has ended after its
\* backend call settled, in a list or in an error, has sent exactly one.
C12_AtMostOneBackendCall ==
  \A c \in CallIds :
     /\ Len(calls[c].sent) <= 1
     /\ calls[c].pc = "awaiting" => Len(calls[c].sent) = 1
     /\ c \in SettledCalls => Len(calls[c].sent) = 1
     /\ Len(calls[c].sent) = 1 =>
           /\ calls[c].path = provider
           /\ provider = "gemini" =>
                 calls[c].client = geminiClient /\ calls[c].sent[1].model = "gemini-2.0-flash-exp"
           /\ provider = "openai" =>
                 calls[c].client = openaiClient /\ calls[c].sent[1].model = "gpt-4o-mini"
           /\ calls[c].sent[1].prompt = BuildPrompt(calls[c].businessType)

\* C12's case: one call has failed on a rejected backend call, another on
\* a text the normalizer refuses, each after its one request
C12_Witness ==
  /\ \E c \in SettledCalls : calls[c].response[1].kind = "reject" /\ ~calls[c].result.ok
  /\ \E c \in SettledCalls :
        /\ calls[c].parserCalls = 1
        /\ ~calls[c].result.ok
        /\ Len(calls[c].sent) = 1

\* C16: no step of a generateIdeas call changes the provider identifier or
\* a client handle, or touches another call; calls that got the same
\* response from the backend, for the same business type, end alike.
C16_CallsLeaveGatewayUnchanged ==
  [][ /\ provider' = provider
      /\ geminiClient' = geminiClient
      /\ openaiClient' = openaiClient
      /\ \A c \in CallIds : calls'[c] # calls[c] =>
            \A d \in CallIds \ {c} : calls'[d] = calls[d]
      /\ \A c \in CallIds : \A d \in CallIds :
            ( /\ calls'[c].pc = "done" /\ calls'[d].pc = "done"
              /\ calls'[c].businessType = calls'[d].businessType
              /\ calls'[c].response = calls'[d].response ) =>
               calls'[c].result = calls'[d].result ]_vars

\* C16's case: on one gateway with its client as constructed, two calls for
\* different business types have ended, one in a list and one in an error
C16_Witness ==
  /\ geminiClient = ConstructedGemini(ctorArgs)
  /\ openaiClient = ConstructedOpenAI(ctorArgs)
  /\ \A c \in CallIds : c \in SettledCalls
  /\ calls[1].businessType # calls[2].businessType
  /\ calls[1].result.ok
  /\ ~calls[2].result.ok

(***************************************************************************)
(* Claims about the rate limiter.                                          *)
(***************************************************************************)
\* the number of entries of a list equal to t
Occurrences(list, t) == Cardinality({i \in 1..Len(list) : list[i] = t})

\* the number of admitted requests of a history inside the window that ends at t
AdmittedInWindow(history, t) ==
  Cardinality({j \in 1..Len(history) : history[j] <= t /\ t - history[j] < WINDOW_MS})

\* C3: the limiter admits a request only if fewer than 6 requests of its
\* address were admitted in the preceding 60,000 ms; so no address has more
\* than 6 admitted requests inside any 60-second window, and no stored
\* timestamp list holds more than 6 entries.
C3_AtMostSixPerWindow ==
  /\ lastReq.outcome = "admitted" =>
        LET h == admitted[lastReq.ip]
        IN  /\ h[Len(h)] = lastReq.now
            /\ Cardinality({j \in 1..(Len(h) - 1) : lastReq.now - h[j] < WINDOW_MS})
                 < REQUESTS_PER_MINUTE
  /\ \A ip \in DOMAIN admitted : \A i \in 1..Len(admitted[ip]) :
        AdmittedInWindow(admitted[ip], admitted[ip][i]) <= REQUESTS_PER_MINUTE
  /\ \A ip \in DOMAIN rateLimitStore :
        Len(rateLimitStore[ip]) <= REQUESTS_PER_MINUTE

\* C3's case: an address that filled its window is admitted again later
C3_Witness ==
  /\ lastReq.outcome = "admitted"
  /\ Len(admitted[lastReq.ip]) > REQUESTS_PER_MINUTE
  /\ Len(rateLimitStore[lastReq.ip]) = REQUESTS_PER_MINUTE

\* C4: when the tracked addresses exceed the threshold at the end of a
\* request, the sweep leaves no address whose timestamps are all older
\* than the window.
C4_SweepEvictsStale ==
  [][ ( /\ served' # served
        /\ lastReq'.outcome = "admitted"
        /\ Cardinality(DOMAIN rateLimitStore \cup {lastReq'.ip}) > SweepThreshold )
      => \A k \in DOMAIN rateLimitStore' :
           \E i \in 1..Len(rateLimitStore'[k]) : InWindow(lastReq'.now, rateLimitStore'[k][i])
    ]_vars

\* C9: right after a request is admitted its timestamp ends the list of its
\* address, and a stored timestamp leaves the store only when a request of
\* the same address prunes it, being at least 60,000 ms old.
C9_NoTimestampLost ==
  [][ /\ (served' # served /\ lastReq'.outcome = "admitted") =>
            /\ lastReq'.ip \in DOMAIN rateLimitStore'
            /\ LET l == rateLimitStore'[lastReq'.ip] IN Len(l) > 0 /\ l[Len(l)] = lastReq'.now
      /\ \A ip \in DOMAIN rateLimitStore : \A i \in 1..Len(rateLimitStore[ip]) :
            LET t == rateLimitStore[ip][i]
            IN  \/ /\ ip \in DOMAIN rateLimitStore'
                   /\ Occurrences(rateLimitStore'[ip], t) >= Occurrences(rateLimitStore[ip], t)
                \/ /\ served' # served
                   /\ lastReq'.ip = ip
                   /\ lastReq'.outcome \in {"admitted", "rejected"}
                   /\ lastReq'.now - t >= WINDOW_MS
    ]_vars

\* C9's case: a request has just pruned old timestamps of its address and
\* kept younger ones, while another address holds timestamps too
C9_Witness ==
  /\ lastReq.outcome = "admitted"
  /\ Len(rateLimitStore[lastReq.ip]) >= 2
  /\ Len(admitted[lastReq.ip]) > Len(rateLimitStore[lastReq.ip])
  /\ \E other \in DOMAIN rateLimitStore :
        other # lastReq.ip /\ Len(rateLimitStore[other]) >= 2


\* the url of a request names the limited route
OnLimitedRoute(url) == \E i \in 1..Len(url) : url[i] = "/api/generate-ideas"

\* C17: a rejected request adds no timestamp: after it the list of its
\* address holds exactly the timestamps younger than 60,000 ms that it held
\* before, and the lists of the other addresses are as they were.
C17_RejectionRecordsNothing ==
  [][ (served' # served /\ lastReq'.outcome = "rejected") =>
        LET ip == lastReq'.ip
            now == lastReq'.now
        IN  /\ ip \in DOMAIN rateLimitStore
            /\ DOMAIN rateLimitStore' = DOMAIN rateLimitStore
            /\ rateLimitStore'[ip] =
                  SelectSeq(rateLimitStore[ip], LAMBDA t : now - t < 60000)
            /\ \A other \in DOMAIN rateLimitStore \ {ip} :
                  rateLimitStore'[other] = rateLimitStore[other]
            /\ admitted' = admitted ]_vars

\* C17's case: an address with a full list was rejected while another
\* address has timestamps of its own
C17_Witness ==
  /\ lastReq.outcome = "rejected"
  /\ Len(rateLimitStore[lastReq.ip]) = REQUESTS_PER_MINUTE
  /\ \E other \in DOMAIN rateLimitStore :
        other # lastReq.ip /\ Len(rateLimitStore[other]) > 0

\* C18: when the last rate-limited request of an address was rejected at t,
\* its next one at t + 60,000 or later is admitted.
C18_AdmittedAfterWindow ==
  \A ip \in DOMAIN lastByIp :
     ( /\ lastByIp[ip].prevOutcome = "rejected"
       /\ lastByIp[ip].now >= lastByIp[ip].prevNow + 60000 ) =>
        lastByIp[ip].outcome = "admitted"

\* C18's case: an address rejected at t came back exactly 60,000 ms later
\* and was admitted
C18_Witness ==
  \E ip \in DOMAIN lastByIp :
     /\ lastByIp[ip].prevOutcome = "rejected"
     /\ lastByIp[ip].now = lastByIp[ip].prevNow + 60000
     /\ lastByIp[ip].outcome = "admitted"

\* C19: a request whose url does not contain "/api/generate-ideas" is not
\* rejected and leaves the store as it was: no key added or deleted, no
\* list pruned or appended to.
C19_OtherRoutesUntouched ==
  [][ (served' # served /\ ~OnLimitedRoute(lastReq'.url)) =>
        /\ lastReq'.outcome = "skipped"
        /\ rateLimitStore' = rateLimitStore
        /\ admitted' = admitted ]_vars

\* C19's case: an address whose list is full asked for another route and
\* passed
C19_Witness ==
  /\ lastReq.outcome = "skipped"
  /\ lastReq.url = <<Host, "/api/status">>
  /\ lastReq.ip \in DOMAIN rateLimitStore
  /\ Len(rateLimitStore[lastReq.ip]) = REQUESTS_PER_MINUTE

====
